---- MODULE Spec2Model ----
(***************************************************************************)
(* Model of streamlit_app.py: the three-phase pipeline executed by         *)
(* run_hybrid_multi_agent_analysis_with_docx, its caller main, the         *)
(* st.cache_resource-cached agent factory and the DOCX export step.        *)
(*                                                                         *)
(* Text is modelled as a sequence of tokens (a query as a sequence of      *)
(* characters), so that "s contains t" is a contiguous-subsequence test.   *)
(***************************************************************************)
EXTENDS Integers, Sequences, FiniteSets, TLC

(***************************************************************************)
(* Bounds and input sets                                                   *)
(***************************************************************************)

\* The length cap the specification asks of a Query (the code has none).
QueryCap == 2

Sessions == {"s1", "s2"}

Stages == 1..3

StageName(k) == CASE k = 1 -> "research" [] k = 2 -> "analysis" [] OTHER -> "synthesis"

Whitespace == {" "}

NonPrintable == {"BEL"}

\* A query longer than the cap, made of printable characters only.
LongQuery == [i \in 1..(QueryCap + 1) |-> "q"]

\* The contents the text area can hold when the button is pressed.
Queries == {<< >>, <<" ">>, <<"q">>, <<"BEL">>, LongQuery}

\* The contents of the sidebar's API key field.
ApiKeys == {"", "gsk_a", "gsk_b"}

\* Raw texts a crew's kickoff can return, one token per line; all are shorter
\* than the 500-character window create_docx_bytes looks at.
Outputs ==
    {<< >>, <<"text">>, <<"Error:", "text">>, <<"Report", "Executive Summary">>,
     <<"1. Executive Summary:", " summary ", "", "Key Findings: growth", "more">>}

\* Messages of the exceptions a call can raise.
ExcMessages == {<<"Error", "code:", "429">>, <<"Rate_Limit", "exceeded">>, <<"timeout">>}

(***************************************************************************)
(* Text helpers                                                            *)
(***************************************************************************)

\* Python's `needle in hay`.
Contains(hay, needle) ==
    \E i \in 0..(Len(hay) - Len(needle)) : SubSeq(hay, i + 1, i + Len(needle)) = needle

RECURSIVE LStrip(_)
LStrip(q) == IF q # << >> /\ Head(q) \in Whitespace THEN LStrip(Tail(q)) ELSE q

RECURSIVE RStrip(_)
RStrip(q) ==
    IF q # << >> /\ q[Len(q)] \in Whitespace THEN RStrip(SubSeq(q, 1, Len(q) - 1)) ELSE q

\* str.strip()
Strip(q) == RStrip(LStrip(q))

\* str.lower(), token by token.
LowerToken(t) ==
    CASE t = "Rate_Limit" -> "rate_limit"
      [] t = "Error" -> "error"
      [] OTHER -> t

Lower(m) == [i \in 1..Len(m) |-> LowerToken(m[i])]

(***************************************************************************)
(* Python values                                                           *)
(***************************************************************************)

\* A local variable that has not been assigned.
Unset == [kind |-> "unset", raw |-> << >>]

\* The object a crew's kickoff returns.
CrewOutput(text) == [kind |-> "CrewOutput", raw |-> text]

\* str(crew_output)
Str(o) == o.raw

PyNone == [kind |-> "None"]

PyTuple(a, b) == [kind |-> "tuple", items |-> <<a, b>>]

\* Python truthiness of the values the program tests.
Truthy(v) == v.kind = "tuple"

(***************************************************************************)
(* Task templates (the f-strings of the three task factories)              *)
(***************************************************************************)

create_research_task(user_query) ==
    <<"Conduct comprehensive research and analysis on:">> \o user_query
        \o <<"Your research must include the following structured sections">>

\* The analysis task built as if no research output had been passed.
create_analysis_task_without_context(user_query, research_results) ==
    <<"Perform comprehensive multi-dimensional analysis on:">> \o user_query
        \o <<"Provide thorough analysis organized in these exact sections">>

create_analysis_task(user_query, research_results) ==
    LET research_context ==
            IF research_results # << >>
            THEN <<"RESEARCH CONTEXT:">> \o research_results
            ELSE << >>
    IN  <<"Perform comprehensive multi-dimensional analysis on:">> \o user_query
            \o research_context
            \o <<"Provide thorough analysis organized in these exact sections">>

create_orchestration_task(user_query, research_data, analysis_data) ==
    <<"Create an executive-level synthesis report for:">> \o user_query
        \o <<"RESEARCH DATA:">> \o research_data
        \o <<"ANALYSIS DATA:">> \o analysis_data
        \o <<"Create a comprehensive executive report with these EXACT sections">>

(***************************************************************************)
(* DOCX export                                                             *)
(***************************************************************************)

AlnumOrSafe == {"q", " ", "-", "_"}

\* ''.join(c for c in query[:30] if c.isalnum() or c in (' ', '-', '_'))
RECURSIVE KeepSafe(_)
KeepSafe(q) ==
    IF q = << >> THEN << >>
    ELSE IF Head(q) \in AlnumOrSafe THEN <<Head(q)>> \o KeepSafe(Tail(q))
    ELSE KeepSafe(Tail(q))

\* .strip().replace(' ', '_')
SafeQuery(q) ==
    LET t == Strip(KeepSafe(q))
    IN  [i \in 1..Len(t) |-> IF t[i] = " " THEN "_" ELSE t[i]]

\* str.upper() of a line.
UpperLine(line) ==
    CASE line = "1. Executive Summary:" -> "1. EXECUTIVE SUMMARY:"
      [] line = "Executive Summary" -> "EXECUTIVE SUMMARY"
      [] line = "Key Findings: growth" -> "KEY FINDINGS: GROWTH"
      [] line = " summary " -> " SUMMARY "
      [] line = "text" -> "TEXT"
      [] line = "more" -> "MORE"
      [] line = "Report" -> "REPORT"
      [] line = "Error:" -> "ERROR:"
      [] OTHER -> line

\* "EXECUTIVE SUMMARY" in line
HasSummaryHeading(line) == line \in {"1. EXECUTIVE SUMMARY:", "EXECUTIVE SUMMARY"}

\* line.startswith(('KEY FINDINGS', 'STRATEGIC'))
StartsSection(line) == line \in {"KEY FINDINGS: GROWTH"}

\* line.strip()
StripLine(line) == CASE line = " summary " -> "summary" [] OTHER -> line

\* if line.strip() and not line.upper().startswith(('KEY FINDINGS', 'STRATEGIC'))
KeepSummaryLine(line) == StripLine(line) # "" /\ ~StartsSection(UpperLine(line))

\* clean_summary: the kept lines, stripped, in order.
RECURSIVE CleanLines(_)
CleanLines(text) ==
    IF text = << >> THEN << >>
    ELSE IF KeepSummaryLine(Head(text)) THEN <<StripLine(Head(text))>> \o CleanLines(Tail(text))
    ELSE CleanLines(Tail(text))

\* "EXECUTIVE SUMMARY" in final_report.upper()
SummaryFound(final_report) ==
    \E i \in 1..Len(final_report) : HasSummaryHeading(UpperLine(final_report[i]))

\* final_report.upper().find("EXECUTIVE SUMMARY"), as the line it falls in.
SummaryStart(final_report) ==
    CHOOSE i \in 1..Len(final_report) :
        /\ HasSummaryHeading(UpperLine(final_report[i]))
        /\ \A j \in 1..(i - 1) : ~HasSummaryHeading(UpperLine(final_report[j]))

\* lines[1:6] of the text from the heading on: the five lines after its line.
SummaryLines(final_report) ==
    LET start == SummaryStart(final_report)
        last == IF Len(final_report) < start + 5 THEN Len(final_report) ELSE start + 5
    IN  SubSeq(final_report, start + 1, last)

\* add_executive_summary_box(' '.join(clean_summary))
SummaryBox(clean_summary) == [block |-> "summary_box", lines |-> clean_summary]

\* The blocks the executive-summary step of create_docx_bytes adds.
ExecutiveSummary(final_report) ==
    IF SummaryFound(final_report) /\ CleanLines(SummaryLines(final_report)) # << >>
    THEN <<SummaryBox(CleanLines(SummaryLines(final_report)))>>
    ELSE << >>

\* add_section(heading, content): the non-empty lines of str(content), stripped.
RECURSIVE SectionLines(_)
SectionLines(text) ==
    IF text = << >> THEN << >>
    ELSE IF StripLine(Head(text)) # "" THEN <<StripLine(Head(text))>> \o SectionLines(Tail(text))
    ELSE SectionLines(Tail(text))

Section(heading, content) == [block |-> "section", heading |-> heading, lines |-> SectionLines(content)]

\* The document create_docx_bytes builds from the record.
Document(results) ==
    <<[block |-> "header", query |-> results.query, timestamp |-> results.timestamp]>>
        \o ExecutiveSummary(Str(results.final_report))
        \o <<Section("RESEARCH FINDINGS & INTELLIGENCE", Str(results.research)),
             Section("COMPREHENSIVE ANALYSIS & INSIGHTS", Str(results.analysis)),
             Section("EXECUTIVE SYNTHESIS & RECOMMENDATIONS", Str(results.final_report)),
             Section("SYSTEM METADATA", <<"Document Generated:", results.timestamp>>)>>

\* formatter.get_document_bytes()
DocxBytes(document) == [kind |-> "bytes", document |-> document]

Filename(q) == [kind |-> "str", raw |-> <<"Multi_Agent_Analysis_">> \o SafeQuery(q) \o <<".docx">>]

\* create_docx_bytes: `built` is whether the document body was built without
\* an exception; the function catches every exception and returns (None, None).
create_docx_bytes(results, built) ==
    IF built THEN PyTuple(DocxBytes(Document(results)), Filename(results.query))
    ELSE PyTuple(PyNone, PyNone)

(***************************************************************************)
(* State                                                                   *)
(***************************************************************************)

VARIABLES
    sessions,          \* the browser sessions the host process serves
    cache_llm,         \* st.cache_resource of get_groq_llm: api_key -> object
    cache_agents,      \* st.cache_resource of create_agents: api_key -> object
    next_obj,          \* identity of the next object constructed
    pc,                \* where each session's script run stands
    api_key,           \* sidebar text input
    user_query,        \* text area
    export_docx,       \* sidebar checkbox
    agents,            \* (research_agent, analysis_agent, orchestrator_agent)
    task_description,  \* description of the Task built for each stage
    research_results,
    analysis_results,
    final_results,
    results,           \* the dict compiled at the end of the run
    compiled,          \* the dict as compiled, before the export phase
    docx_bytes,        \* local docx_bytes of the run
    ret,               \* the pair the run returned
    status,            \* last message shown in status_placeholder
    kickoffs,          \* number of kickoff calls made for each stage
    in_flight,         \* stages whose kickoff has been called and has not returned
    stage_log,         \* stages in the order their results were produced
    sleeps,            \* number of time.sleep(10) calls made
    failed_at,         \* -1: no failure; 0: outside a stage call; k: stage k
    progress,          \* values the progress bar created by main has shown
    download           \* the download button main rendered, if any

vars ==
    <<sessions, cache_llm, cache_agents, next_obj, pc, api_key, user_query, export_docx,
      agents, task_description, research_results, analysis_results, final_results,
      results, compiled, docx_bytes, ret, status, kickoffs, in_flight, stage_log,
      sleeps, failed_at, progress, download>>

\* What main itself puts on the page around the run.
ui == <<progress, download>>

shared == <<cache_llm, cache_agents, next_obj>>

inputs == <<api_key, user_query, export_docx>>

outputs == <<research_results, analysis_results, final_results>>

history == <<kickoffs, in_flight, stage_log, sleeps, failed_at>>

Timestamp == "2025-01-01 00:00:00"

NoObject == [kind |-> "None", id |-> 0]

InitSessions(active) ==
    /\ sessions = active
    /\ cache_llm = [k \in ApiKeys |-> NoObject]
    /\ cache_agents = [k \in ApiKeys |-> NoObject]
    /\ next_obj = 1
    /\ pc = [s \in Sessions |-> "idle"]
    /\ api_key = [s \in Sessions |-> ""]
    /\ user_query = [s \in Sessions |-> << >>]
    /\ export_docx = [s \in Sessions |-> TRUE]
    /\ agents = [s \in Sessions |-> NoObject]
    /\ task_description = [s \in Sessions |-> [k \in Stages |-> << >>]]
    /\ research_results = [s \in Sessions |-> Unset]
    /\ analysis_results = [s \in Sessions |-> Unset]
    /\ final_results = [s \in Sessions |-> Unset]
    /\ results = [s \in Sessions |-> Unset]
    /\ compiled = [s \in Sessions |-> Unset]
    /\ docx_bytes = [s \in Sessions |-> PyNone]
    /\ ret = [s \in Sessions |-> Unset]
    /\ status = [s \in Sessions |-> "none"]
    /\ kickoffs = [s \in Sessions |-> [k \in Stages |-> 0]]
    /\ in_flight = [s \in Sessions |-> {}]
    /\ stage_log = [s \in Sessions |-> << >>]
    /\ sleeps = [s \in Sessions |-> 0]
    /\ failed_at = [s \in Sessions |-> -1]
    /\ progress = [s \in Sessions |-> << >>]
    /\ download = [s \in Sessions |-> PyNone]

\* One browser session.
Init == InitSessions({"s1"})

\* Two browser sessions served by the same host process.
InitShared == InitSessions(Sessions)

(***************************************************************************)
(* main: the script run in which the Run button is pressed                 *)
(***************************************************************************)

\* disabled=not api_key or not user_query.strip(), and the two checks that
\* follow the button: the only validation main performs.
Accepted(key, query) == key # "" /\ Strip(query) # << >>

\* Locals of a run that has not assigned them yet.
ResetRun(s) ==
    /\ agents' = [agents EXCEPT ![s] = NoObject]
    /\ task_description' = [task_description EXCEPT ![s] = [k \in Stages |-> << >>]]
    /\ research_results' = [research_results EXCEPT ![s] = Unset]
    /\ analysis_results' = [analysis_results EXCEPT ![s] = Unset]
    /\ final_results' = [final_results EXCEPT ![s] = Unset]
    /\ results' = [results EXCEPT ![s] = Unset]
    /\ compiled' = [compiled EXCEPT ![s] = Unset]
    /\ docx_bytes' = [docx_bytes EXCEPT ![s] = PyNone]
    /\ ret' = [ret EXCEPT ![s] = Unset]
    /\ kickoffs' = [kickoffs EXCEPT ![s] = [k \in Stages |-> 0]]
    /\ in_flight' = [in_flight EXCEPT ![s] = {}]
    /\ stage_log' = [stage_log EXCEPT ![s] = << >>]
    /\ sleeps' = [sleeps EXCEPT ![s] = 0]
    /\ failed_at' = [failed_at EXCEPT ![s] = -1]

\* The user fills the widgets and presses Run; main either returns without
\* calling the pipeline or calls run_hybrid_multi_agent_analysis_with_docx,
\* which shows its first status messages.
MainRun(s, key, query, export) ==
    /\ s \in sessions
    /\ pc[s] = "idle"
    /\ api_key' = [api_key EXCEPT ![s] = key]
    /\ user_query' = [user_query EXCEPT ![s] = query]
    /\ export_docx' = [export_docx EXCEPT ![s] = export]
    /\ IF Accepted(key, query)
       THEN /\ pc' = [pc EXCEPT ![s] = "create_agents"]
            /\ status' = [status EXCEPT ![s] = "rate_limiting_note"]
       ELSE /\ pc' = [pc EXCEPT ![s] = "rejected"]
            /\ status' = [status EXCEPT ![s] = "none"]
    /\ progress' = [progress EXCEPT ![s] = IF Accepted(key, query) THEN <<0>> ELSE << >>]
    /\ UNCHANGED <<sessions, download, shared, agents, task_description, outputs, results,
                   compiled, docx_bytes, ret, history>>

\* The same press of the button, when one of the status_placeholder calls that
\* precede the try block of the run raises: nothing catches the exception in
\* the run or in main, and the script run ends with it.
MainRunStatusRaise(s, key, query, export) ==
    /\ s \in sessions
    /\ pc[s] = "idle"
    /\ Accepted(key, query)
    /\ api_key' = [api_key EXCEPT ![s] = key]
    /\ user_query' = [user_query EXCEPT ![s] = query]
    /\ export_docx' = [export_docx EXCEPT ![s] = export]
    /\ pc' = [pc EXCEPT ![s] = "crashed"]
    /\ status' = [status EXCEPT ![s] = "starting"]
    /\ progress' = [progress EXCEPT ![s] = <<0>>]
    /\ UNCHANGED <<sessions, download, shared, agents, task_description, outputs, results,
                   compiled, docx_bytes, ret, history>>

\* A later script run of the same session: every local of the previous run is
\* gone, and the widgets are read again when the button is next pressed.
Rerun(s) ==
    /\ s \in sessions
    /\ pc[s] \in {"rejected", "done", "failed", "crashed"}
    /\ pc' = [pc EXCEPT ![s] = "idle"]
    /\ status' = [status EXCEPT ![s] = "none"]
    /\ api_key' = [api_key EXCEPT ![s] = ""]
    /\ user_query' = [user_query EXCEPT ![s] = << >>]
    /\ export_docx' = [export_docx EXCEPT ![s] = TRUE]
    /\ progress' = [progress EXCEPT ![s] = << >>]
    /\ download' = [download EXCEPT ![s] = PyNone]
    /\ ResetRun(s)
    /\ UNCHANGED <<sessions, shared>>

(***************************************************************************)
(* The except clause of run_hybrid_multi_agent_analysis_with_docx          *)
(***************************************************************************)

\* The test made on str(e) itself, without .lower().
ErrorKindCaseSensitive(msg) ==
    IF Contains(msg, <<"rate_limit">>) \/ Contains(msg, <<"429">>)
    THEN "rate_limit"
    ELSE "system"

\* error_msg = str(e).lower(); "rate_limit" in error_msg or "429" in error_msg
ErrorKind(msg) ==
    IF Contains(Lower(msg), <<"rate_limit">>) \/ Contains(Lower(msg), <<"429">>)
    THEN "rate_limit"
    ELSE "system"

ErrorRecord(msg) == [error |-> ErrorKind(msg), message |-> msg]

\* A run that logs the failure of research and goes on to the next phase.
AfterExceptionResume(k) == IF k = 1 THEN "sleep1" ELSE "failed"

\* Where the run stands after an exception was handled.
AfterException(k) == "failed"

\* except Exception as e: ... return {"error": ..., "message": str(e)}, None
HandleException(s, k, msg) ==
    /\ failed_at' = [failed_at EXCEPT ![s] = k]
    /\ IF AfterException(k) = "failed"
       THEN ret' = [ret EXCEPT ![s] = PyTuple(ErrorRecord(msg), PyNone)]
       ELSE UNCHANGED ret
    /\ pc' = [pc EXCEPT ![s] = AfterException(k)]

(***************************************************************************)
(* create_agents and get_groq_llm, both under st.cache_resource            *)
(***************************************************************************)

\* get_groq_llm(api_key): the cached object, or a new LLM that is then cached.
get_groq_llm(key) ==
    IF cache_llm[key].kind # "None" THEN cache_llm[key]
    ELSE [kind |-> "LLM", id |-> next_obj]

\* The three Agent objects create_agents builds around one LLM handle.
NewAgents(llm) ==
    [kind |-> "agents", id |-> IF llm.id = next_obj THEN next_obj + 1 ELSE next_obj,
     llm |-> llm.id]

\* research_agent, analysis_agent, orchestrator_agent = create_agents(api_key)
CreateAgents(s) ==
    /\ s \in sessions
    /\ pc[s] = "create_agents"
    /\ LET key == api_key[s]
           hit == cache_agents[key].kind # "None"
           llm == get_groq_llm(key)
           made == IF hit THEN cache_agents[key] ELSE NewAgents(llm)
       IN  /\ agents' = [agents EXCEPT ![s] = made]
           /\ cache_agents' = [cache_agents EXCEPT ![key] = made]
           /\ cache_llm' = IF hit THEN cache_llm ELSE [cache_llm EXCEPT ![key] = llm]
           /\ next_obj' = IF hit THEN next_obj ELSE made.id + 1
    /\ pc' = [pc EXCEPT ![s] = "research"]
    /\ status' = [status EXCEPT ![s] = "phase1"]
    /\ UNCHANGED <<sessions, ui, inputs, task_description, outputs, results, compiled,
                   docx_bytes, ret, history>>

\* create_agents raises: in LLM(...) (llm_made = FALSE) or in Agent(...), after
\* get_groq_llm has cached its LLM. A cached create_agents does not run its body.
CreateAgentsRaise(s, msg, llm_made) ==
    /\ s \in sessions
    /\ pc[s] = "create_agents"
    /\ LET key == api_key[s]
           llm == get_groq_llm(key)
       IN  /\ cache_agents[key].kind = "None"
           /\ cache_llm[key].kind # "None" => llm_made
           /\ cache_llm' = IF llm_made THEN [cache_llm EXCEPT ![key] = llm] ELSE cache_llm
           /\ next_obj' = IF llm_made /\ llm.id = next_obj THEN next_obj + 1 ELSE next_obj
    /\ HandleException(s, 0, msg)
    /\ status' = [status EXCEPT ![s] = "rate_limiting_note"]
    /\ UNCHANGED <<sessions, ui, cache_agents, inputs, agents, task_description, outputs,
                   results, compiled, docx_bytes, kickoffs, in_flight, stage_log, sleeps>>

(***************************************************************************)
(* The three phases                                                        *)
(***************************************************************************)

\* The run is about to build the stage's task and crew.
ReadyPc(k) == CASE k = 1 -> "research" [] k = 2 -> "analysis" [] OTHER -> "synthesis"

\* The run is blocked inside crew.kickoff() of the stage.
CallPc(k) ==
    CASE k = 1 -> "research_call" [] k = 2 -> "analysis_call" [] OTHER -> "synthesis_call"

\* A run that goes from research straight to the delay before synthesis.
AfterReturnSkipAnalysis(k) == CASE k = 1 -> "sleep2" [] k = 2 -> "sleep2" [] OTHER -> "compile"

\* A run that goes from one phase to the next without the rate-limit delay.
AfterReturnNoDelay(k) == CASE k = 1 -> "analysis" [] k = 2 -> "synthesis" [] OTHER -> "compile"

\* The statement that follows the stage's kickoff: the rate-limit sleep after
\* research and analysis, the compilation of the results after synthesis.
AfterReturn(k) == CASE k = 1 -> "sleep1" [] k = 2 -> "sleep2" [] OTHER -> "compile"

\* A run that starts stage k while the kickoff of stage k-1 is still blocked.
CanStartEager(s, k) == pc[s] = ReadyPc(k) \/ (k > 1 /\ pc[s] = CallPc(k - 1))

\* Control reaches the kickoff of stage k only from the statement before it.
CanStart(s, k) == pc[s] = ReadyPc(k)

\* The description of the task the run builds for stage k from its own locals.
TaskFor(s, k) ==
    CASE k = 1 -> create_research_task(user_query[s])
      [] k = 2 -> create_analysis_task(user_query[s], Str(research_results[s]))
      [] OTHER -> create_orchestration_task(user_query[s], Str(research_results[s]),
                                            Str(analysis_results[s]))

\* xxx_task = create_xxx_task(...); Crew(...); the call of crew.kickoff().
KickoffStart(s, k) ==
    /\ s \in sessions
    /\ CanStart(s, k)
    /\ task_description' = [task_description EXCEPT ![s][k] = TaskFor(s, k)]
    /\ kickoffs' = [kickoffs EXCEPT ![s][k] = @ + 1]
    /\ in_flight' = [in_flight EXCEPT ![s] = @ \cup {k}]
    /\ pc' = [pc EXCEPT ![s] = CallPc(k)]
    /\ status' = [status EXCEPT ![s] = "phase_status"]
    /\ UNCHANGED <<sessions, ui, shared, inputs, agents, outputs, results, compiled, docx_bytes,
                   ret, stage_log, sleeps, failed_at>>

\* crew.kickoff() returns: the result is bound to the stage's local and the
\* "... Phase Complete" message is shown.
KickoffReturn(s, k, text) ==
    /\ s \in sessions
    /\ pc[s] = CallPc(k)
    /\ research_results' =
           IF k = 1 THEN [research_results EXCEPT ![s] = CrewOutput(text)] ELSE research_results
    /\ analysis_results' =
           IF k = 2 THEN [analysis_results EXCEPT ![s] = CrewOutput(text)] ELSE analysis_results
    /\ final_results' =
           IF k = 3 THEN [final_results EXCEPT ![s] = CrewOutput(text)] ELSE final_results
    /\ in_flight' = [in_flight EXCEPT ![s] = @ \ {k}]
    /\ stage_log' = [stage_log EXCEPT ![s] = Append(@, k)]
    /\ pc' = [pc EXCEPT ![s] = AfterReturn(k)]
    /\ status' = [status EXCEPT ![s] = IF k = 3 THEN "completed_at" ELSE "waiting"]
    /\ UNCHANGED <<sessions, ui, shared, inputs, agents, task_description, results, compiled,
                   docx_bytes, ret, kickoffs, sleeps, failed_at>>

\* crew.kickoff() raises: control goes to the except clause of the run.
KickoffRaise(s, k, msg) ==
    /\ s \in sessions
    /\ pc[s] = CallPc(k)
    /\ in_flight' = [in_flight EXCEPT ![s] = @ \ {k}]
    /\ HandleException(s, k, msg)
    /\ UNCHANGED <<sessions, ui, shared, inputs, agents, task_description, outputs, results,
                   compiled, docx_bytes, status, kickoffs, stage_log, sleeps>>

\* time.sleep(10) between two phases, then the next phase's status messages.
Sleep(s) ==
    /\ s \in sessions
    /\ pc[s] \in {"sleep1", "sleep2"}
    /\ sleeps' = [sleeps EXCEPT ![s] = @ + 1]
    /\ pc' = [pc EXCEPT ![s] = IF pc[s] = "sleep1" THEN ReadyPc(2) ELSE ReadyPc(3)]
    /\ status' = [status EXCEPT ![s] = "phase_status"]
    /\ UNCHANGED <<sessions, ui, shared, inputs, agents, task_description, outputs, results,
                   compiled, docx_bytes, ret, kickoffs, in_flight, stage_log, failed_at>>

\* The statements inside the try block that begin with a status_placeholder
\* call: the waits after research and analysis, the completion messages, and
\* the phase 4 messages.
StatusPcs == {"sleep1", "sleep2", "compile", "export"}

\* A status_placeholder call inside the try block raises: control goes to the
\* except clause of the run.
StatusRaise(s, msg) ==
    /\ s \in sessions
    /\ pc[s] \in StatusPcs
    /\ HandleException(s, 0, msg)
    /\ UNCHANGED <<sessions, ui, shared, inputs, agents, task_description, outputs, results,
                   compiled, docx_bytes, status, kickoffs, in_flight, stage_log, sleeps>>

(***************************************************************************)
(* Compilation of the results and the DOCX export phase                    *)
(***************************************************************************)

\* results = {'query': ..., 'timestamp': ..., 'research': ..., 'analysis': ...,
\*            'final_report': ...}
CompileResults(s) ==
    [query |-> user_query[s], timestamp |-> Timestamp, research |-> research_results[s],
     analysis |-> analysis_results[s], final_report |-> final_results[s]]

\* The dict after the export step: results['docx_bytes'] = docx_bytes.
AfterExport(r, docx) ==
    [query |-> r.query, timestamp |-> r.timestamp, research |-> r.research,
     analysis |-> r.analysis, final_report |-> r.final_report, docx_bytes |-> docx]

\* Compile results; docx_bytes = None; with export disabled, return.
Compile(s) ==
    /\ s \in sessions
    /\ pc[s] = "compile"
    /\ results' = [results EXCEPT ![s] = CompileResults(s)]
    /\ compiled' = [compiled EXCEPT ![s] = CompileResults(s)]
    /\ docx_bytes' = [docx_bytes EXCEPT ![s] = PyNone]
    /\ IF export_docx[s]
       THEN /\ pc' = [pc EXCEPT ![s] = "export"]
            /\ status' = [status EXCEPT ![s] = "phase4_status"]
            /\ UNCHANGED ret
       ELSE /\ pc' = [pc EXCEPT ![s] = "done"]
            /\ ret' = [ret EXCEPT ![s] = PyTuple(CompileResults(s), PyNone)]
            /\ UNCHANGED status
    /\ UNCHANGED <<sessions, ui, shared, inputs, agents, task_description, outputs, history>>

\* main, after a return without an 'error' key: if docx_data and export_docx,
\* docx_bytes, filename = docx_data; st.download_button(data=docx_bytes,
\* file_name=filename, ...).
DownloadButton(docx_data, export) ==
    IF Truthy(docx_data) /\ export
    THEN [kind |-> "download_button", data |-> docx_data.items[1],
          file_name |-> docx_data.items[2]]
    ELSE PyNone

\* docx_bytes = create_docx_bytes(results); results['docx_bytes'] = docx_bytes;
\* "DOCX Export Complete"; return results, docx_bytes; main then shows the
\* results and the download button.
Export(s, built) ==
    /\ s \in sessions
    /\ pc[s] = "export"
    /\ LET docx == create_docx_bytes(results[s], built)
       IN  /\ docx_bytes' = [docx_bytes EXCEPT ![s] = docx]
           /\ results' = [results EXCEPT ![s] = AfterExport(results[s], docx)]
           /\ ret' = [ret EXCEPT ![s] = PyTuple(AfterExport(results[s], docx), docx)]
           /\ download' = [download EXCEPT ![s] = DownloadButton(docx, export_docx[s])]
    /\ status' = [status EXCEPT ![s] = "docx_export_complete"]
    /\ pc' = [pc EXCEPT ![s] = "done"]
    /\ UNCHANGED <<sessions, progress, shared, inputs, agents, task_description, outputs, compiled,
                   history>>

\* status_placeholder.success("DOCX Export Complete") raises inside the inner
\* try: docx_bytes and results['docx_bytes'] are already assigned, the inner
\* except clause reports the export error, and the run returns normally.
ExportStatusRaise(s, built) ==
    /\ s \in sessions
    /\ pc[s] = "export"
    /\ LET docx == create_docx_bytes(results[s], built)
       IN  /\ docx_bytes' = [docx_bytes EXCEPT ![s] = docx]
           /\ results' = [results EXCEPT ![s] = AfterExport(results[s], docx)]
           /\ ret' = [ret EXCEPT ![s] = PyTuple(AfterExport(results[s], docx), docx)]
           /\ download' = [download EXCEPT ![s] = DownloadButton(docx, export_docx[s])]
    /\ status' = [status EXCEPT ![s] = "docx_export_error"]
    /\ pc' = [pc EXCEPT ![s] = "done"]
    /\ UNCHANGED <<sessions, progress, shared, inputs, agents, task_description, outputs, compiled,
                   history>>

(***************************************************************************)
(* Specifications                                                          *)
(***************************************************************************)

\* One step of session s, with the values the environment supplies drawn from
\* the given sets of queries, kickoff outputs and exception messages.
Step(s, queries, texts, msgs) ==
    \/ \E key \in ApiKeys, query \in queries, export \in BOOLEAN :
           MainRun(s, key, query, export)
    \/ \E key \in ApiKeys, query \in queries, export \in BOOLEAN :
           MainRunStatusRaise(s, key, query, export)
    \/ Rerun(s)
    \/ CreateAgents(s)
    \/ \E msg \in msgs, llm_made \in BOOLEAN : CreateAgentsRaise(s, msg, llm_made)
    \/ \E k \in Stages : KickoffStart(s, k)
    \/ \E k \in Stages, text \in texts : KickoffReturn(s, k, text)
    \/ \E k \in Stages, msg \in msgs : KickoffRaise(s, k, msg)
    \/ Sleep(s)
    \/ Compile(s)
    \/ \E built \in BOOLEAN : Export(s, built)
    \/ \E msg \in msgs : StatusRaise(s, msg)
    \/ \E built \in BOOLEAN : ExportStatusRaise(s, built)

Next == \E s \in Sessions : Step(s, Queries, Outputs, ExcMessages)

Spec == Init /\ [][Next]_vars

\* Two concurrent sessions, each environment value drawn from one
\* representative of its set.
NextShared == \E s \in Sessions : Step(s, {<<"q">>}, {<<"text">>}, {<<"timeout">>})

SpecShared == InitShared /\ [][NextShared]_vars

(***************************************************************************)
(* Properties                                                              *)
(***************************************************************************)

\* The result bound to the local of stage k.
StageResult(s, k) ==
    CASE k = 1 -> research_results[s] [] k = 2 -> analysis_results[s] [] OTHER -> final_results[s]

Produced(s, k) == StageResult(s, k).kind = "CrewOutput"

Running(s) == pc[s] \notin {"idle", "rejected", "done", "failed", "crashed"}

\* The first element of the returned pair.
Returned(s) == ret[s].items[1]

\* C1: a run in which no stage fails ends Complete with exactly three stage
\* results produced in the order research, analysis, synthesis, each stage
\* kicked off once, and the returned record carries the three results; at no
\* time is a stage result produced twice or out of order.
C1_ThreeResultsInOrder ==
    \A s \in Sessions :
        /\ stage_log[s] = SubSeq(<<1, 2, 3>>, 1, Len(stage_log[s]))
        /\ pc[s] = "done" =>
               /\ failed_at[s] = -1
               /\ stage_log[s] = <<1, 2, 3>>
               /\ \A k \in Stages : kickoffs[s][k] = 1 /\ Produced(s, k)
               /\ Returned(s).research = research_results[s]
               /\ Returned(s).analysis = analysis_results[s]
               /\ Returned(s).final_report = final_results[s]

C1_Witness ==
    \E s \in Sessions :
        /\ pc[s] = "done"
        /\ Accepted(api_key[s], user_query[s])
        /\ Str(Returned(s).research) = <<"text">>
        /\ stage_log[s] = <<1, 2, 3>>

\* C2: when stage k fails the run is in the Failed state, no later stage has
\* been kicked off, exactly the k-1 delays that preceded the failure have been
\* slept, and no compilation or DOCX export has happened.
C2_FailureStopsRun ==
    \A s \in Sessions :
        failed_at[s] \in Stages =>
            /\ pc[s] = "failed"
            /\ \A j \in Stages : j > failed_at[s] => kickoffs[s][j] = 0 /\ ~Produced(s, j)
            /\ in_flight[s] = {}
            /\ sleeps[s] = failed_at[s] - 1
            /\ results[s] = Unset
            /\ docx_bytes[s] = PyNone
            /\ Returned(s) \in {ErrorRecord(m) : m \in ExcMessages}

C2_Witness ==
    \E s \in Sessions :
        /\ failed_at[s] = 2
        /\ pc[s] = "failed"
        /\ kickoffs[s] = [k \in Stages |-> IF k = 3 THEN 0 ELSE 1]
        /\ Produced(s, 1)

\* The Query validation the specification describes.
IsEmpty(q) == Strip(q) = << >>

OverCap(q) == Len(q) > QueryCap

HasNonPrintable(q) == \E i \in 1..Len(q) : q[i] \in NonPrintable

\* C3: for a query that is empty, over the length cap or contains a
\* non-printable character, a run request makes no stage call.
C3_InvalidQueryMakesNoCall ==
    \A s \in Sessions :
        (pc[s] # "idle"
            /\ (IsEmpty(user_query[s]) \/ OverCap(user_query[s])
                    \/ HasNonPrintable(user_query[s])))
        => \A k \in Stages : kickoffs[s][k] = 0

\* The kickoff of stage k returned text containing the substring "Error:".
ReturnedErrorText(s, k) == Produced(s, k) /\ Contains(Str(StageResult(s, k)), <<"Error:">>)

\* C4: a stage whose call returned text containing "Error:" is a failed stage:
\* the run is Failed, the text is not in the returned record and no later stage
\* has been kicked off.
C4_ErrorTextFailsStage ==
    \A s \in Sessions : \A k \in Stages :
        ReturnedErrorText(s, k) =>
            /\ pc[s] = "failed"
            /\ \A j \in Stages : j > k => kickoffs[s][j] = 0

\* C5: a rate-limit (429) failure of a stage is surfaced only after the call
\* has been retried exactly once: the failed stage has been called twice, and
\* no stage is ever called more than twice.
C5_OneRetryOn429 ==
    \A s \in Sessions :
        /\ \A k \in Stages : kickoffs[s][k] <= 2
        /\ (pc[s] = "failed" /\ failed_at[s] \in Stages /\ Returned(s).error = "rate_limit")
               => kickoffs[s][failed_at[s]] = 2

\* C6: the stage calls of a run are strictly sequential: at most one is in
\* flight, and a stage has been started only if the stage before it has
\* returned its result and is no longer in flight.
C6_StagesSequential ==
    \A s \in Sessions :
        /\ Cardinality(in_flight[s]) <= 1
        /\ \A k \in 2..3 :
               kickoffs[s][k] > 0 =>
                   /\ Produced(s, k - 1)
                   /\ (k - 1) \notin in_flight[s]
                   /\ \E i \in 1..Len(stage_log[s]) : stage_log[s][i] = k - 1

C6_Witness ==
    \E s \in Sessions : in_flight[s] = {3} /\ pc[s] = "synthesis_call" /\ sleeps[s] = 2

\* C7: the analysis prompt contains the query and the full research output of
\* the run, and the synthesis prompt contains the query, the research output
\* and the analysis output of the run.
C7_OutputsThreadedForward ==
    \A s \in Sessions :
        /\ kickoffs[s][2] > 0 =>
               /\ Contains(task_description[s][2], user_query[s])
               /\ Contains(task_description[s][2], Str(research_results[s]))
        /\ kickoffs[s][3] > 0 =>
               /\ Contains(task_description[s][3], user_query[s])
               /\ Contains(task_description[s][3], Str(research_results[s]))
               /\ Contains(task_description[s][3], Str(analysis_results[s]))

C7_Witness ==
    \E s \in Sessions :
        /\ kickoffs[s][3] = 1
        /\ user_query[s] = <<"q">>
        /\ Str(research_results[s]) = <<"text">>
        /\ Str(analysis_results[s]) = <<"Error:", "text">>

\* C8: after the DOCX export phase the result record has exactly the keys and
\* values it had when it was compiled.
C8_ExportLeavesResultsUnchanged ==
    \A s \in Sessions :
        (pc[s] = "done" /\ export_docx[s]) =>
            /\ DOMAIN results[s] = DOMAIN compiled[s]
            /\ results[s] = compiled[s]

\* C9: no agent or LLM object used by one run is reachable from a concurrent
\* run of another session.
C9_RunsShareNothing ==
    \A s \in Sessions : \A t \in Sessions \ {s} :
        (Running(s) /\ Running(t) /\ agents[s].kind = "agents" /\ agents[t].kind = "agents")
        => /\ agents[s].id # agents[t].id
           /\ agents[s].llm # agents[t].llm

\* C10: the failure returned for a run that failed at stage k names that
\* stage, in a field of the returned record or in its message, and a run that
\* failed at research has no stage result.
C10_FailureNamesStage ==
    \A s \in Sessions :
        (pc[s] = "failed" /\ failed_at[s] \in Stages) =>
            /\ \/ "stage" \in DOMAIN Returned(s)
               \/ Contains(Lower(Returned(s).message), <<StageName(failed_at[s])>>)
            /\ failed_at[s] = 1 => stage_log[s] = << >>

\* The last value of a non-empty sequence.
Last(q) == q[Len(q)]

\* C11: every successful stage has been followed by a progress notification,
\* the percent values reported over a run are strictly increasing, and the
\* last value reported is 100 exactly when the run is Complete.
C11_ProgressReaches100 ==
    \A s \in Sessions :
        Running(s) \/ pc[s] = "done" =>
            /\ Len(progress[s]) >= 1 + Len(stage_log[s])
            /\ \A i \in 1..Len(progress[s]) : \A j \in 1..Len(progress[s]) :
                   i < j => progress[s][i] < progress[s][j]
            /\ (pc[s] = "done") <=> (Last(progress[s]) = 100)

\* The delay that follows stage k has been slept.
Slept(s, k) == Produced(s, k) /\ pc[s] # (IF k = 1 THEN "sleep1" ELSE "sleep2")

\* C12: the run sleeps only at the two stage boundaries: never before
\* research, once after research returned and before analysis starts, once
\* after analysis returned and before synthesis starts, never after synthesis;
\* a successful run has slept exactly twice and a run whose stage k raised has
\* slept exactly k-1 times.
C12_DelaysOnlyAtBoundaries ==
    \A s \in Sessions :
        /\ sleeps[s] <= 2
        /\ sleeps[s] <= Len(stage_log[s])
        /\ \A k \in 2..3 : kickoffs[s][k] > 0 => sleeps[s] >= k - 1
        /\ kickoffs[s][3] = 0 => sleeps[s] <= kickoffs[s][2] + 1
        /\ kickoffs[s][2] = 0 => sleeps[s] <= 1
        /\ failed_at[s] # 0 => sleeps[s] = Cardinality({k \in 1..2 : Slept(s, k)})
        /\ pc[s] = "done" => sleeps[s] = 2
        /\ failed_at[s] \in Stages => sleeps[s] = failed_at[s] - 1

C12_Witness ==
    \E s \in Sessions :
        /\ pc[s] = "done"
        /\ sleeps[s] = 2
        /\ \A k \in Stages : kickoffs[s][k] = 1

\* The document of a run whose export produced bytes.
ExportedDocument(s) == docx_bytes[s].items[1].document

Exported(s) ==
    pc[s] = "done" /\ docx_bytes[s].kind = "tuple" /\ docx_bytes[s].items[1].kind = "bytes"

\* The callout the specification describes: the non-empty lines among the five
\* that follow the heading, or the beginning of the report (all of it, for a
\* report shorter than 350 characters) when there is no heading.
DescribedSummary(final_report) ==
    IF SummaryFound(final_report)
    THEN SectionLines(SummaryLines(final_report))
    ELSE SectionLines(final_report)

\* C13: the document exported for a non-empty report always contains one
\* Executive Summary callout,
\* built from the non-empty lines that follow the heading when the stage-3
\* output has one, and from the beginning of the stage-3 output otherwise.
C13_SummaryCalloutAlwaysPresent ==
    \A s \in Sessions :
        (Exported(s) /\ Str(final_results[s]) # << >>) =>
            LET doc == ExportedDocument(s)
                boxes == {i \in 1..Len(doc) : doc[i].block = "summary_box"}
            IN  /\ Cardinality(boxes) = 1
                /\ \A i \in boxes : doc[i].lines = DescribedSummary(Str(final_results[s]))

\* create_docx_bytes failed: it returned (None, None).
ExportFailed(s) == pc[s] = "done" /\ export_docx[s] /\ docx_bytes[s] = PyTuple(PyNone, PyNone)

\* C14: when create_docx_bytes fails after the three stages succeeded, the run
\* returns the record with the three stage outputs and no 'error' key, the
\* status does not report the export as complete and no download button is
\* shown; a download button is only ever shown with document bytes and a
\* filename that are not None.
C14_ExportFailureYieldsNoDownload ==
    \A s \in Sessions :
        /\ ExportFailed(s) =>
               /\ "error" \notin DOMAIN Returned(s)
               /\ Returned(s).research = research_results[s]
               /\ Returned(s).analysis = analysis_results[s]
               /\ Returned(s).final_report = final_results[s]
               /\ status[s] # "docx_export_complete"
               /\ download[s] = PyNone
        /\ download[s] # PyNone =>
               /\ download[s].data # PyNone
               /\ download[s].file_name # PyNone

NamesRateLimit(msg) ==
    Contains(Lower(msg), <<"rate_limit">>) \/ Contains(Lower(msg), <<"429">>)

====
